---- MODULE Spec2Model ----
(***************************************************************************)
(* AVL tree of src/Module_3/AVL_BST/main.cpp (class AVLBinaryTree<T>).     *)
(*                                                                         *)
(* A tree is a value: Nil for an absent subtree, otherwise a record        *)
(* [key, level, left, right] as in struct Node.  Every recursive method    *)
(* "returns the new subtree, the caller reassigns", so a method is an      *)
(* operator from a subtree to the set of results it can return.            *)
(*                                                                         *)
(* node_level and bfactor return a reference (const size_t&, const int&)   *)
(* to a temporary that is destroyed before the caller reads it.  Reading   *)
(* it is undefined behaviour; the builds produce three outcomes, all       *)
(* modelled: the value is still intact, the slot holds a stale word, or    *)
(* the reference is null and the read traps (the process aborts).          *)
(*                                                                         *)
(* main of the same file is the command loop: its input is modelled as     *)
(* commands chosen freely, as fixed lists, or as a stream of tokens, and   *)
(* its end runs the destructor.  balance, the rotations and bfactor are    *)
(* also called on their own on every small subtree (SpecCall).             *)
(*                                                                         *)
(* The last part is the int stack and ProcessOperation of src/B/main.c,    *)
(* the set-expression evaluator (SpecEval).                                *)
(***************************************************************************)
EXTENDS Integers, Sequences, FiniteSets, Bags, TLC

\* ------------------------------------------------------------------ bounds
\* keys are 1..MaxKey (T is any totally ordered type; main uses std::string)
MaxKey == 4
\* size_t is SizeBits wide and int IntBits wide, IntBits < SizeBits as on
\* LP64.  A level never exceeds the number of nodes, so the widths only
\* show where bfactor subtracts a larger level from a smaller one.
SizeBits == 16
IntBits == 8

\* the longest ascending run of insertions
TallKeys == 6

Max(a, b) == IF a > b THEN a ELSE b

Keys == 1..MaxKey
\* no tree is grown beyond MaxNodes nodes
MaxNodes == Max(MaxKey, TallKeys) + 1
\* A word found in the slot of a dead size_t temporary.  The levels read
\* this way are used in two places only: they are stored by fix_height and
\* they are subtracted by bfactor, whose own result is a dead temporary too.
StaleLevels == {0}
\* A word found in the slot of a dead int temporary.  balance only compares
\* it (== 2, == -2, < 0, > 0): these five values take every branch.
StaleInts == {0 - 2, 0 - 1, 0, 1, 2}

RECURSIVE Pow2(_)
Pow2(n) == IF n = 0 THEN 1 ELSE 2 * Pow2(n - 1)

\* size_t values are taken modulo SizeMod, int values modulo IntMod
SizeMod == Pow2(SizeBits)
IntMod == Pow2(IntBits)

\* ------------------------------------------------------------------ nodes
Nil == [nil |-> TRUE]

\* mutant: the node is built by Node() = default, its key left at T{}
Node_default(key) == [key |-> 0, level |-> 1, left |-> Nil, right |-> Nil]

\* Node(T key): key{key}, level{1}, left{nullptr}, right{nullptr}
Node(key) == [key |-> key, level |-> 1, left |-> Nil, right |-> Nil]

\* result of an operation that did not return: the process was aborted
Crash == [crash |-> TRUE, t |-> Nil, rot |-> 0]

\* ---------------------------------------------------- structural measures
RECURSIVE Inorder(_)
Inorder(t) == IF t = Nil THEN <<>>
              ELSE Inorder(t.left) \o <<t.key>> \o Inorder(t.right)

RECURSIVE KeysOf(_)
KeysOf(t) == IF t = Nil THEN {}
             ELSE KeysOf(t.left) \cup {t.key} \cup KeysOf(t.right)

RECURSIVE NodeCount(_)
NodeCount(t) == IF t = Nil THEN 0
                ELSE NodeCount(t.left) + 1 + NodeCount(t.right)

\* height of a subtree recomputed from its shape (absent = 0, leaf = 1)
RECURSIVE Height(_)
Height(t) == IF t = Nil THEN 0
             ELSE 1 + Max(Height(t.left), Height(t.right))

RECURSIVE IsBST(_)
IsBST(t) == \/ t = Nil
            \/ /\ \A k \in KeysOf(t.left) : k < t.key
               /\ \A k \in KeysOf(t.right) : k > t.key
               /\ IsBST(t.left)
               /\ IsBST(t.right)

RECURSIVE IsBalanced(_)
IsBalanced(t) == \/ t = Nil
                 \/ /\ Height(t.left) - Height(t.right) \in {-1, 0, 1}
                    /\ IsBalanced(t.left)
                    /\ IsBalanced(t.right)

StoredLevel(t) == IF t = Nil THEN 0 ELSE t.level

RECURSIVE LevelsExact(_)
LevelsExact(t) == \/ t = Nil
                  \/ /\ t.level = 1 + Max(StoredLevel(t.left), StoredLevel(t.right))
                     /\ LevelsExact(t.left)
                     /\ LevelsExact(t.right)

\* ------------------------------------------------- height and balance
\* const size_t& node_level(Node*): `node ? node->level : 0` is a prvalue,
\* the returned reference dangles.  The set is what a caller can read
\* through it without trapping; the trap is the Crash result of balance.
node_level(node) == {IF node = Nil THEN 0 ELSE node.level} \cup StaleLevels

\* size_t subtraction, modulo 2^SizeBits
SubSize(a, b) == (a - b) % SizeMod

\* static_cast<int>(size_t): the low IntBits bits, two's complement
ToInt(x) == LET low == x % IntMod
            IN  IF 2 * low >= IntMod THEN low - IntMod ELSE low

\* const int& bfactor(Node*): the int temporary dangles as well
bfactor(node) ==
    {ToInt(SubSize(r, l)) : r \in node_level(node.right), l \in node_level(node.left)}
        \cup StaleInts

\* void fix_height(Node*): the node with its level rewritten
fix_height(node) ==
    {[node EXCEPT !.level = (Max(l, r) + 1) % SizeMod] :
        l \in node_level(node.left), r \in node_level(node.right)}

\* ------------------------------------------------------------ rotations
\* mutant: `node->left = left->left` for `node->left = left->right`
rotate_right_typo(node) ==
    IF node.left = Nil THEN {}
    ELSE LET left == node.left
         IN  UNION {fix_height([left EXCEPT !.right = n]) :
                        n \in fix_height([node EXCEPT !.left = left.left])}

\* a null `left` is dereferenced: the process aborts, no subtree is returned
rotate_right(node) ==
    IF node.left = Nil THEN {}
    ELSE LET left == node.left
         IN  UNION {fix_height([left EXCEPT !.right = n]) :
                        n \in fix_height([node EXCEPT !.left = left.right])}

rotate_left(node) ==
    IF node.right = Nil THEN {}
    ELSE LET right == node.right
         IN  UNION {fix_height([right EXCEPT !.left = n]) :
                        n \in fix_height([node EXCEPT !.right = right.left])}

\* the `bfactor(node) == 2` branch of balance, after fix_height
BalanceRightHeavy(node) ==
    IF node.right = Nil THEN {}
    ELSE LET inner == bfactor(node.right)
             turned == IF \E c \in inner : c < 0
                       THEN {[node EXCEPT !.right = r] : r \in rotate_right(node.right)}
                       ELSE {}
             kept == IF \E c \in inner : ~(c < 0) THEN {node} ELSE {}
         IN  UNION {rotate_left(n) : n \in turned \cup kept}

\* the `bfactor(node) == -2` branch of balance
BalanceLeftHeavy(node) ==
    IF node.left = Nil THEN {}
    ELSE LET inner == bfactor(node.left)
             turned == IF \E c \in inner : c > 0
                       THEN {[node EXCEPT !.left = l] : l \in rotate_left(node.left)}
                       ELSE {}
             kept == IF \E c \in inner : ~(c > 0) THEN {node} ELSE {}
         IN  UNION {rotate_right(n) : n \in turned \cup kept}

\* balance after fix_height: each call of bfactor(node) is a read of its own
BalanceFixed(node) ==
    LET first == bfactor(node)
        second == bfactor(node)
        right_heavy == IF 2 \in first THEN BalanceRightHeavy(node) ELSE {}
        left_heavy == IF (\E b \in first : b # 2) /\ (0 - 2) \in second
                      THEN BalanceLeftHeavy(node) ELSE {}
        untouched == IF (\E b \in first : b # 2) /\ (\E b \in second : b # 0 - 2)
                     THEN {node} ELSE {}
    IN  {[crash |-> FALSE, t |-> t, rot |-> 1] : t \in right_heavy \cup left_heavy}
            \cup {[crash |-> FALSE, t |-> t, rot |-> 0] : t \in untouched}

\* Node* balance(Node*): results are [crash, t, rot]; rot counts rotation
\* events (a simple or a double rotation is one event)
balance(node) ==
    {Crash} \cup UNION {BalanceFixed(n) : n \in fix_height(node)}

\* --------------------------------------------------------------- insert
\* Node* insert(Node* root, const T& value).  Results are
\* [crash, t, rot, out, alloc]: out the lines printed, alloc the nodes made.
\* A line is printed with std::endl, so it is out before a later abort.
RECURSIVE insert(_, _)
insert(root, value) ==
    IF root = Nil
    THEN {[crash |-> FALSE, t |-> Node(value), rot |-> 0, out |-> <<"OK">>, alloc |-> 1]}
    ELSE IF value = root.key
    THEN {[crash |-> b.crash, t |-> b.t, rot |-> b.rot, out |-> <<"FAIL">>, alloc |-> 0] :
              b \in balance(root)}
    ELSE LET below == IF value < root.key THEN insert(root.left, value)
                      ELSE insert(root.right, value)
             linked(r) == IF value < root.key THEN [root EXCEPT !.left = r.t]
                          ELSE [root EXCEPT !.right = r.t]
             up(r) == IF r.crash
                      THEN {[crash |-> TRUE, t |-> Nil, rot |-> 0,
                             out |-> r.out, alloc |-> r.alloc]}
                      ELSE {[crash |-> b.crash, t |-> b.t,
                             rot |-> IF b.crash THEN 0 ELSE r.rot + b.rot,
                             out |-> r.out, alloc |-> r.alloc] :
                                b \in balance(linked(r))}
         IN  UNION {up(r) : r \in below}

\* --------------------------------------------------------------- remove
RECURSIVE find_min(_)
\* mutant: the subtree's root is taken for its leftmost node
find_min_shallow(node) == node

find_min(node) == IF node.left # Nil THEN find_min(node.left) ELSE node

\* Node* remove_min(Node*): results are [crash, t, rot]
RECURSIVE remove_min(_)
\* mutant: the leftmost node returns itself, not its right child
remove_min_kept(node) ==
    IF node.left = Nil
    THEN {[crash |-> FALSE, t |-> node, rot |-> 0]}
    ELSE UNION {IF r.crash THEN {Crash}
                ELSE {[crash |-> b.crash, t |-> b.t,
                       rot |-> IF b.crash THEN 0 ELSE r.rot + b.rot] :
                          b \in balance([node EXCEPT !.left = r.t])} :
                    r \in remove_min(node.left)}

remove_min(node) ==
    IF node.left = Nil
    THEN {[crash |-> FALSE, t |-> node.right, rot |-> 0]}
    ELSE UNION {IF r.crash THEN {Crash}
                ELSE {[crash |-> b.crash, t |-> b.t,
                       rot |-> IF b.crash THEN 0 ELSE r.rot + b.rot] :
                          b \in balance([node EXCEPT !.left = r.t])} :
                    r \in remove_min(node.left)}

\* mutant: `if (!right) return root;`, the deleted node stays linked
RemoveHere_relinks(root) ==
    IF root.right = Nil
    THEN {[crash |-> FALSE, t |-> root, rot |-> 0, out |-> <<"OK">>,
           freed |-> 1, splice |-> "left"]}
    ELSE LET min == find_min(root.right)
             spliced(r) == [min EXCEPT !.right = r.t, !.left = root.left]
             up(r) == IF r.crash
                      THEN {[crash |-> TRUE, t |-> Nil, rot |-> 0, out |-> <<"OK">>,
                             freed |-> 1, splice |-> "succ"]}
                      ELSE {[crash |-> b.crash, t |-> b.t,
                             rot |-> IF b.crash THEN 0 ELSE r.rot + b.rot,
                             out |-> <<"OK">>, freed |-> 1, splice |-> "succ"] :
                                b \in balance(spliced(r))}
         IN  UNION {up(r) : r \in remove_min(root.right)}

\* the `value == root->key` branch of remove: results as for remove
RemoveHere(root) ==
    LET left == root.left
        right == root.right
    IN  IF right = Nil
        THEN {[crash |-> FALSE, t |-> left, rot |-> 0, out |-> <<"OK">>,
               freed |-> 1, splice |-> "left"]}
        ELSE LET min == find_min(right)
                 spliced(r) == [min EXCEPT !.right = r.t, !.left = left]
                 up(r) == IF r.crash
                          THEN {[crash |-> TRUE, t |-> Nil, rot |-> 0, out |-> <<"OK">>,
                                 freed |-> 1, splice |-> "succ"]}
                          ELSE {[crash |-> b.crash, t |-> b.t,
                                 rot |-> IF b.crash THEN 0 ELSE r.rot + b.rot,
                                 out |-> <<"OK">>, freed |-> 1, splice |-> "succ"] :
                                    b \in balance(spliced(r))}
             IN  UNION {up(r) : r \in remove_min(right)}

\* Node* remove(Node* root, const T& value).  Results are
\* [crash, t, rot, out, freed, splice]: freed the nodes deleted, splice the
\* way the removed node was replaced ("none", "left" or "succ").
RECURSIVE remove(_, _)
remove(root, value) ==
    IF root = Nil
    THEN {[crash |-> FALSE, t |-> Nil, rot |-> 0, out |-> <<"FAIL">>,
           freed |-> 0, splice |-> "none"]}
    ELSE IF value = root.key
    THEN RemoveHere(root)
    ELSE LET below == IF value < root.key THEN remove(root.left, value)
                      ELSE remove(root.right, value)
             linked(r) == IF value < root.key THEN [root EXCEPT !.left = r.t]
                          ELSE [root EXCEPT !.right = r.t]
             up(r) == IF r.crash
                      THEN {[crash |-> TRUE, t |-> Nil, rot |-> 0, out |-> r.out,
                             freed |-> r.freed, splice |-> r.splice]}
                      ELSE {[crash |-> b.crash, t |-> b.t,
                             rot |-> IF b.crash THEN 0 ELSE r.rot + b.rot,
                             out |-> r.out, freed |-> r.freed, splice |-> r.splice] :
                                b \in balance(linked(r))}
         IN  UNION {up(r) : r \in below}

\* --------------------------------------------------------------- search
\* const Node* search(const Node* root, const T& value): the loop, unrolled
RECURSIVE search(_, _)
\* mutant: `root->key < value` descends to the left
search_flipped(root, value) ==
    IF root = Nil THEN Nil
    ELSE IF root.key = value THEN root
    ELSE IF root.key < value THEN search(root.left, value)
    ELSE search(root.right, value)

search(root, value) ==
    IF root = Nil THEN Nil
    ELSE IF root.key = value THEN root
    ELSE IF root.key < value THEN search(root.right, value)
    ELSE search(root.left, value)

\* ------------------------------------- src/B/main.c: DECLARE_STACK(TYPE)
\* A stack is [base, container_size]: base the allocated cells, base_size
\* their number (Len(base)); next_item is always base + container_size.
\* a cell malloc has returned and nothing has written yet; it is never read
Uninit == 0 - 1

MULTIPLIER_COEF == 2

STACK_CONSTRUCT == [base |-> <<>>, container_size |-> 0]

Min(a, b) == IF a < b THEN a ELSE b

\* RESIZE: a new block of new_size cells, the first container_size copied
RESIZE(self, new_size) ==
    [self EXCEPT !.base =
        [i \in 1..new_size |->
            IF i <= Min(self.container_size, new_size) /\ i <= Len(self.base)
            THEN self.base[i] ELSE Uninit]]

RESERVE(self, size) ==
    LET diff == Len(self.base) - size
    IN  IF diff <= 0
        THEN [RESIZE(self, size * MULTIPLIER_COEF) EXCEPT !.container_size = size]
        ELSE [self EXCEPT !.container_size = size]

STACK_PUSH(self, value) ==
    LET reserved == RESERVE(self, self.container_size + 1)
    IN  [reserved EXCEPT !.base[reserved.container_size] = value]

\* STACK_POP: [exit, value, self]; exit(0) on an empty stack
STACK_POP(self) ==
    IF self.container_size = 0
    THEN [exit |-> TRUE, value |-> 0, self |-> self]
    ELSE [exit |-> FALSE, value |-> self.base[self.container_size],
          self |-> RESERVE(self, self.container_size - 1)]

SIZE(self) == self.container_size

\* the entries of a stack, bottom first
Entries(self) == SubSeq(self.base, 1, self.container_size)

\* ------------------------------------------ src/B/main.c: ProcessOperation
\* the loop of GetSet, `size` pops to go; [exit, base, buffer]
RECURSIVE GetSetLoop(_, _, _)
GetSetLoop(base, buffer, size) ==
    IF size = 0 THEN [exit |-> FALSE, base |-> base, buffer |-> buffer]
    ELSE LET popped == STACK_POP(base)
         IN  IF popped.exit THEN [exit |-> TRUE, base |-> base, buffer |-> buffer]
             ELSE GetSetLoop(popped.self, STACK_PUSH(buffer, popped.value), size - 1)

\* void GetSet(base, buffer): the count is popped, then that many entries
GetSet(base, buffer) ==
    LET popped == STACK_POP(base)
    IN  IF popped.exit THEN [exit |-> TRUE, base |-> base, buffer |-> buffer]
        ELSE GetSetLoop(popped.self, buffer, popped.value)

Count(set, element) ==
    Cardinality({i \in 1..SIZE(set) : set.base[i] = element})

IsIn(element, set) == \E i \in 1..SIZE(set) : element = set.base[i]

\* for (i < SIZE(from)) PUSH(to, from->base[i]), from index i on
RECURSIVE PushAll(_, _, _)
PushAll(to, from, i) ==
    IF i > SIZE(from) THEN to
    ELSE PushAll(STACK_PUSH(to, from.base[i]), from, i + 1)

\* case 'U', first loop: the entries of right not in left are pushed on left
RECURSIVE UnionLoop(_, _, _)
UnionLoop(left, right, i) ==
    IF i > SIZE(right) THEN left
    ELSE UnionLoop(IF Count(left, right.base[i]) = 0
                   THEN STACK_PUSH(left, right.base[i]) ELSE left,
                   right, i + 1)

CaseUnion(stack, left, right) ==
    LET joined == UnionLoop(left, right, 1)
    IN  STACK_PUSH(PushAll(stack, joined, 1), SIZE(joined))

\* case '\\', the loop: the entries of left not in right are pushed
RECURSIVE DifferenceLoop(_, _, _, _)
DifferenceLoop(stack, left, right, i) ==
    IF i > SIZE(left) THEN stack
    ELSE DifferenceLoop(IF Count(right, left.base[i]) = 0
                        THEN STACK_PUSH(stack, left.base[i]) ELSE stack,
                        left, right, i + 1)

\* mutant: the count pushed is the number of entries the loop has pushed
CaseDifference_counted(stack, left, right) ==
    LET pushed == DifferenceLoop(stack, left, right, 1)
    IN  STACK_PUSH(pushed, SIZE(pushed) - SIZE(stack))

\* `PUSH(int, multiset, (int) SIZE(int, multiset))`: the count pushed is the
\* size of the whole stack
CaseDifference(stack, left, right) ==
    LET pushed == DifferenceLoop(stack, left, right, 1)
    IN  STACK_PUSH(pushed, SIZE(pushed))

\* case '^', the two loops: the common entries go to buffer, each once
RECURSIVE IntersectionLoop(_, _, _, _, _)
IntersectionLoop(buffer, left, right, i, j) ==
    IF i > SIZE(left) THEN buffer
    ELSE IF j > SIZE(right) THEN IntersectionLoop(buffer, left, right, i + 1, 1)
    ELSE IntersectionLoop(IF left.base[i] = right.base[j] /\ ~IsIn(left.base[i], buffer)
                          THEN STACK_PUSH(buffer, left.base[i]) ELSE buffer,
                          left, right, i, j + 1)

CaseIntersection(stack, left, right) ==
    LET buffer == IntersectionLoop(STACK_CONSTRUCT, left, right, 1, 1)
    IN  STACK_PUSH(PushAll(stack, buffer, 1), SIZE(buffer))

\* void ProcessOperation(multiset, op): [exit, multiset]
ProcessOperation(stack, operator) ==
    LET right == GetSet(stack, STACK_CONSTRUCT)
        left == GetSet(right.base, STACK_CONSTRUCT)
    IN  IF right.exit \/ left.exit THEN [exit |-> TRUE, multiset |-> stack]
        ELSE [exit |-> FALSE,
              multiset |->
                  IF operator = "U" THEN CaseUnion(left.base, left.buffer, right.buffer)
                  ELSE IF operator = "\\"
                  THEN CaseDifference(left.base, left.buffer, right.buffer)
                  ELSE IF operator = "^"
                  THEN CaseIntersection(left.base, left.buffer, right.buffer)
                  ELSE left.base]

\* ---------------------------------------------------------------- state
VARIABLES
    root,      \* AVLBinaryTree::_root
    pc,        \* main's loop: "read" at `std::cin >> command >> value`,
               \* "ran" when the command's case has run, "exit" once the
               \* loop is left, "done" when the tree is destroyed
    out,       \* lines printed by the command that ran
    op,        \* the command that ran: what it was called with and what it did
    crashed,   \* the process was aborted inside the command
    ref,       \* the keys inserted and not removed since (reference set)
    run,       \* the input being fed: any commands ("free", "session"),
               \* distinct keys inserted then all removed ("fill", "drain"),
               \* a fixed list ("script", "ascending", "commands"), a stream
               \* of tokens ("input"), one call ("call"), an expression ("eval")
    live,      \* the nodes made by `new Node` and not yet deleted: a bag of keys
    dead,      \* the nodes deleted by clear_tree, in the order of deletion
    multiset   \* src/B/main.c: the STACK(int) of main, the operand sets

vars == <<root, pc, out, op, crashed, ref, run, live, dead, multiset>>

NoOp == [kind |-> "none", key |-> 0, present |-> FALSE, rot |-> 0,
         alloc |-> 0, freed |-> 0, splice |-> "none", found |-> FALSE, val |-> 0]

\* run.pos counts the commands of the input consumed, run.rots the rotation
\* events of the commands that returned, run.lines is everything printed
FreeRun == [mode |-> "free", pos |-> 0, rots |-> 0, lines |-> <<>>]

InitTree ==
    /\ root = Nil
    /\ pc = "read"
    /\ out = <<>>
    /\ op = NoOp
    /\ crashed = FALSE
    /\ ref = {}
    /\ live = EmptyBag
    /\ dead = <<>>
    /\ multiset = STACK_CONSTRUCT

Init == InitTree /\ run = FreeRun

\* case '+': void insert(const T& value): _root = insert(_root, value)
DoInsert(k) ==
    /\ pc = "read"
    /\ NodeCount(root) < MaxNodes
    /\ \E r \in insert(root, k) :
        /\ root' = IF r.crash THEN root ELSE r.t
        /\ out' = r.out
        /\ crashed' = r.crash
        /\ ref' = IF r.crash THEN ref ELSE ref \cup {k}
        /\ op' = [NoOp EXCEPT !.kind = "insert", !.key = k,
                              !.present = (k \in KeysOf(root)),
                              !.rot = r.rot, !.alloc = r.alloc]
        /\ live' = IF r.alloc = 1 THEN live (+) SetToBag({k}) ELSE live
    /\ pc' = "ran"
    /\ UNCHANGED <<dead, multiset>>

\* case '-': void remove(const T& value): _root = remove(_root, value)
DoRemove(k) ==
    /\ pc = "read"
    /\ \E r \in remove(root, k) :
        /\ root' = IF r.crash THEN root ELSE r.t
        /\ out' = r.out
        /\ crashed' = r.crash
        /\ ref' = IF r.crash THEN ref ELSE ref \ {k}
        /\ op' = [NoOp EXCEPT !.kind = "remove", !.key = k,
                              !.present = (k \in KeysOf(root)),
                              !.rot = r.rot, !.freed = r.freed,
                              !.splice = r.splice]
        /\ live' = IF r.freed = 1 THEN live (-) SetToBag({k}) ELSE live
    /\ pc' = "ran"
    /\ UNCHANGED <<dead, multiset>>

\* case '?': prints OK when search(value) != nullptr, else FAIL
DoSearch(k) ==
    /\ pc = "read"
    /\ out' = IF search(root, k) # Nil THEN <<"OK">> ELSE <<"FAIL">>
    /\ op' = [NoOp EXCEPT !.kind = "search", !.key = k,
                          !.present = (k \in KeysOf(root)),
                          !.found = (search(root, k) # Nil)]
    /\ pc' = "ran"
    /\ UNCHANGED <<root, crashed, ref, live, dead, multiset>>

\* `break;` out of the switch, back to the top of while (true); an aborted
\* process does not get here
Loop ==
    /\ pc = "ran"
    /\ ~crashed
    /\ pc' = "read"
    /\ out' = <<>>
    /\ op' = NoOp
    /\ UNCHANGED <<root, crashed, ref, run, live, dead, multiset>>

\* `if (std::cin.fail()) break;` then `return 0;`: main leaves the loop
ReadFail ==
    /\ pc = "read"
    /\ pc' = "exit"
    /\ UNCHANGED <<root, out, op, crashed, ref, live, dead, multiset>>

\* void clear_tree(Node*): the keys of the nodes in the order of `delete tree`
RECURSIVE clear_tree(_)
\* mutant: `delete tree` comes first, before the two recursive calls
clear_tree_preorder(tree) ==
    IF tree = Nil THEN <<>>
    ELSE <<tree.key>> \o clear_tree(tree.left) \o clear_tree(tree.right)

clear_tree(tree) ==
    IF tree = Nil THEN <<>>
    ELSE clear_tree(tree.left) \o clear_tree(tree.right) \o <<tree.key>>

\* ~AVLBinaryTree(): clear_tree(_root) deletes one node per step; the child
\* pointers of the nodes are left as they are
ClearStep ==
    /\ pc = "exit"
    /\ Len(dead) < Len(clear_tree(root))
    /\ LET key == clear_tree(root)[Len(dead) + 1]
       IN  /\ dead' = Append(dead, key)
           /\ live' = live (-) SetToBag({key})
    /\ UNCHANGED <<root, pc, out, op, crashed, ref, run, multiset>>

\* ~AVLBinaryTree(): `_root = nullptr;` after clear_tree has returned
ClearDone ==
    /\ pc = "exit"
    /\ Len(dead) = Len(clear_tree(root))
    /\ root' = Nil
    /\ pc' = "done"
    /\ UNCHANGED <<out, op, crashed, ref, run, live, dead, multiset>>

\* ------------------------------------------------- any sequence of commands
Insert(k) == DoInsert(k) /\ UNCHANGED run
Remove(k) == DoRemove(k) /\ UNCHANGED run
Search(k) == DoSearch(k) /\ UNCHANGED run

Next ==
    \/ \E k \in Keys : Insert(k)
    \/ \E k \in Keys : Remove(k)
    \/ \E k \in Keys : Search(k)
    \/ Loop

Spec == Init /\ [][Next]_vars

\* ------------------------- distinct keys inserted, then every one removed
InitDrain == InitTree /\ run = [FreeRun EXCEPT !.mode = "fill"]

FillInsert(k) ==
    /\ run.mode = "fill"
    /\ k \notin ref
    /\ DoInsert(k)
    /\ run' = [run EXCEPT !.pos = @ + 1]

StartDrain ==
    /\ run.mode = "fill"
    /\ pc = "read"
    /\ ref # {}
    /\ run' = [run EXCEPT !.mode = "drain"]
    /\ UNCHANGED <<root, pc, out, op, crashed, ref, live, dead, multiset>>

DrainRemove(k) ==
    /\ run.mode = "drain"
    /\ k \in ref
    /\ DoRemove(k)
    /\ run' = [run EXCEPT !.pos = @ + 1]

NextDrain ==
    \/ \E k \in Keys : FillInsert(k)
    \/ StartDrain
    \/ \E k \in Keys : DrainRemove(k)
    \/ Loop

SpecDrain == InitDrain /\ [][NextDrain]_vars

\* ------------------------------------- the insertions `+ 5, + 3, + 8, + 1, + 4`
Script == <<5, 3, 8, 1, 4>>

InitScript == InitTree /\ run = [FreeRun EXCEPT !.mode = "script"]

ScriptInsert ==
    /\ run.mode = "script"
    /\ run.pos < Len(Script)
    /\ DoInsert(Script[run.pos + 1])
    /\ run' = [run EXCEPT !.pos = @ + 1,
                          !.rots = IF crashed' THEN @ ELSE @ + op'.rot]

NextScript ==
    \/ ScriptInsert
    \/ Loop

SpecScript == InitScript /\ [][NextScript]_vars

\* ------------------- any sequence of commands, then the end of the stream
InitSession == InitTree /\ run = [FreeRun EXCEPT !.mode = "session"]

\* the stream ends: `std::cin.fail()`, main returns, AVL_BST is destroyed
EndSession == ReadFail /\ UNCHANGED run

NextSession ==
    \/ \E k \in Keys : Insert(k)
    \/ \E k \in Keys : Remove(k)
    \/ \E k \in Keys : Search(k)
    \/ Loop
    \/ EndSession
    \/ ClearStep
    \/ ClearDone

SpecSession == InitSession /\ [][NextSession]_vars

\* ----------------------------- the insertions `+ 1, + 2, ...` in ascending order
InitAscending == InitTree /\ run = [FreeRun EXCEPT !.mode = "ascending"]

AscendingInsert ==
    /\ run.mode = "ascending"
    /\ run.pos < TallKeys
    /\ DoInsert(run.pos + 1)
    /\ run' = [run EXCEPT !.pos = @ + 1]

NextAscending ==
    \/ AscendingInsert
    \/ Loop

SpecAscending == InitAscending /\ [][NextAscending]_vars

\* ------- the commands `+ a, + b, + a, ? a, - a, ? a, - a`, one per line
\* the keys a and b are strings, "a" < "b": any two keys in that order
Commands(a, b) == <<<<"+", a>>, <<"+", b>>, <<"+", a>>, <<"?", a>>,
                    <<"-", a>>, <<"?", a>>, <<"-", a>>>>

InitCommands ==
    /\ InitTree
    /\ \E a, b \in Keys :
        /\ a < b
        /\ run = [mode |-> "commands", pos |-> 0, rots |-> 0, lines |-> <<>>,
                  list |-> Commands(a, b)]

\* switch (command): one command of the list is read and its case is run
Dispatch(command, value) ==
    \/ command = "+" /\ DoInsert(value)
    \/ command = "-" /\ DoRemove(value)
    \/ command = "?" /\ DoSearch(value)

CommandStep ==
    /\ run.mode = "commands"
    /\ run.pos < Len(run.list)
    /\ Dispatch(run.list[run.pos + 1][1], run.list[run.pos + 1][2])
    /\ run' = [run EXCEPT !.pos = @ + 1, !.lines = @ \o out']

NextCommands ==
    \/ CommandStep
    \/ Loop

SpecCommands == InitCommands /\ [][NextCommands]_vars

\* ------------------------- balance, the rotations and bfactor on one subtree
\* the binary search trees on the keys lo..hi, every stored level exact
RECURSIVE Subtrees(_, _)
Subtrees(lo, hi) ==
    IF lo > hi THEN {Nil}
    ELSE UNION {{[key |-> k, left |-> l, right |-> r,
                  level |-> 1 + Max(StoredLevel(l), StoredLevel(r))] :
                     l \in Subtrees(lo, k - 1), r \in Subtrees(k + 1, hi)} :
                   k \in lo..hi}

\* the nodes a method is called on: both children AVL-balanced
Arguments ==
    {t \in UNION {Subtrees(1, n) : n \in 1..(MaxKey + 1)} :
        IsBalanced(t.left) /\ IsBalanced(t.right)}

\* root is the node the method is called on, then the subtree it returned
InitCall ==
    /\ root \in Arguments
    /\ pc = "call"
    /\ out = <<>>
    /\ op = NoOp
    /\ crashed = FALSE
    /\ ref = KeysOf(root)
    /\ live = SetToBag(KeysOf(root))
    /\ dead = <<>>
    /\ multiset = STACK_CONSTRUCT
    /\ run = [FreeRun EXCEPT !.mode = "call"]

\* a call that reads a dangling reference and traps
CallAborts ==
    /\ pc = "call"
    /\ pc' = "aborted"
    /\ crashed' = TRUE
    /\ UNCHANGED <<root, out, op, ref, run, live, dead, multiset>>

CallReturns(kind, t, rot, val) ==
    /\ pc = "call"
    /\ pc' = "returned"
    /\ root' = t
    /\ op' = [NoOp EXCEPT !.kind = kind, !.rot = rot, !.val = val]
    /\ UNCHANGED <<out, crashed, ref, run, live, dead, multiset>>

CallBalance ==
    \E b \in balance(root) :
        IF b.crash THEN CallAborts ELSE CallReturns("balance", b.t, b.rot, 0)

CallRotateRight ==
    /\ root.left # Nil
    /\ \/ CallAborts
       \/ \E t \in rotate_right(root) : CallReturns("rotate_right", t, 1, 0)

CallRotateLeft ==
    /\ root.right # Nil
    /\ \/ CallAborts
       \/ \E t \in rotate_left(root) : CallReturns("rotate_left", t, 1, 0)

CallBfactor ==
    \/ CallAborts
    \/ \E v \in bfactor(root) : CallReturns("bfactor", root, 0, v)

NextCall ==
    \/ CallBalance
    \/ CallRotateRight
    \/ CallRotateLeft
    \/ CallBfactor

SpecCall == InitCall /\ [][NextCall]_vars

\* ------------------------------------------ the input as a stream of tokens
\* `std::cin >> command >> value` skips white space, line ends included, and
\* takes one character, then one token.  The tokens here are one character
\* long and are numbered in the order of their character codes, which is the
\* order of std::string: a token is a key as well.
Alphabet == <<"+", "-", "1", "2", "?", "x">>

Tok(c) == CHOOSE i \in 1..Len(Alphabet) : Alphabet[i] = c

CommandChars == {"+", "-", "?"}

\* the lines of the form `<command> <key>`
WellFormed == {<<Tok(c), Tok(k)>> : c \in CommandChars, k \in {"1", "2"}}

\* some other lines: an unknown command character, a command without its
\* key, a command with a token too many
Malformed == {<<Tok("x"), Tok("1")>>, <<Tok("+")>>, <<Tok("+"), Tok("1"), Tok("2")>>}

\* the lines of the input are at most MaxLines
MaxLines == 3

Marked(line) == [i \in 1..Len(line) |-> [tok |-> line[i], bad |-> line \in Malformed]]

\* run.pend: the tokens not yet extracted; run.eof: the stream has ended;
\* run.bad: a token of a malformed line has been extracted; run.late: a
\* command has been run in a later turn than that
InitInput ==
    /\ InitTree
    /\ run = [mode |-> "input", pos |-> 0, rots |-> 0, lines |-> <<>>,
              pend |-> <<>>, eof |-> FALSE, bad |-> FALSE, late |-> FALSE]

\* one more line arrives on std::cin
FeedLine(line) ==
    /\ run.mode = "input"
    /\ pc = "read"
    /\ ~run.eof
    /\ Len(run.pend) < 2
    /\ run.pos < MaxLines
    /\ run' = [run EXCEPT !.pos = @ + 1, !.pend = @ \o Marked(line)]
    /\ UNCHANGED <<root, pc, out, op, crashed, ref, live, dead, multiset>>

\* std::cin reaches the end of the stream
EndOfStream ==
    /\ run.mode = "input"
    /\ pc = "read"
    /\ ~run.eof
    /\ Len(run.pend) < 2
    /\ run' = [run EXCEPT !.eof = TRUE]
    /\ UNCHANGED <<root, pc, out, op, crashed, ref, live, dead, multiset>>

\* mutant: the extraction fails on a character that is not a command
ExtractFails_strict(pend, eof) ==
    \/ eof /\ Len(pend) < 2
    \/ Len(pend) >= 1 /\ Alphabet[pend[1].tok] \notin CommandChars

\* std::cin.fail() after `std::cin >> command >> value`: a character and a
\* token are always accepted; only the end of the stream fails
ExtractFails(pend, eof) == eof /\ Len(pend) < 2

\* a command character with no case in the switch: nothing is run
NoCase ==
    /\ pc' = "ran"
    /\ out' = <<>>
    /\ op' = NoOp
    /\ UNCHANGED <<root, crashed, ref, live, dead, multiset>>

\* one turn of the loop on a command character and a token
Turn ==
    /\ run.mode = "input"
    /\ pc = "read"
    /\ ~ExtractFails(run.pend, run.eof)
    /\ Len(run.pend) >= 2
    /\ LET command == Alphabet[run.pend[1].tok]
           value == run.pend[2].tok
       IN  /\ \/ Dispatch(command, value)
              \/ command \notin CommandChars /\ NoCase
           /\ run' = [run EXCEPT !.pend = Tail(Tail(@)),
                                 !.lines = @ \o out',
                                 !.bad = @ \/ run.pend[1].bad \/ run.pend[2].bad,
                                 !.late = @ \/ (run.bad /\ command \in CommandChars)]

\* the extraction fails: the loop is left
InputFail ==
    /\ run.mode = "input"
    /\ ExtractFails(run.pend, run.eof)
    /\ ReadFail
    /\ run' = [run EXCEPT !.pend = <<>>,
                          !.bad = @ \/ (\E i \in 1..Len(run.pend) : run.pend[i].bad)]

NextInput ==
    \/ \E line \in WellFormed \cup Malformed : FeedLine(line)
    \/ EndOfStream
    \/ Turn
    \/ InputFail
    \/ Loop
    \/ ClearStep
    \/ ClearDone

SpecInput == InitInput /\ [][NextInput]_vars

\* -------------------------------- src/B/main.c: operand sets and operators
\* the entries of an operand are 1..MaxElem, at most MaxSetLen of them, and
\* an expression has at most MaxSets operands
MaxElem == 2
MaxSetLen == 2
MaxSets == 3

RECURSIVE SeqsUpTo(_, _)
SeqsUpTo(S, n) ==
    IF n = 0 THEN {<<>>}
    ELSE SeqsUpTo(S, n - 1)
             \cup {Append(q, x) : q \in {p \in SeqsUpTo(S, n - 1) : Len(p) = n - 1}, x \in S}

Operands == SeqsUpTo(1..MaxElem, MaxSetLen)

Operators == {"U", "^", "\\"}

RECURSIVE PushEntries(_, _, _)
PushEntries(stack, entries, i) ==
    IF i > Len(entries) THEN stack
    ELSE PushEntries(STACK_PUSH(stack, entries[i]), entries, i + 1)

\* run.pos: the operand sets main has pushed and no operator has consumed;
\* run.pushed: all the operands pushed
InitEval ==
    /\ root = Nil
    /\ pc = "parse"
    /\ out = <<>>
    /\ op = NoOp
    /\ crashed = FALSE
    /\ ref = {}
    /\ live = EmptyBag
    /\ dead = <<>>
    /\ multiset = STACK_CONSTRUCT
    /\ run = [mode |-> "eval", pos |-> 0, rots |-> 0, lines |-> <<>>, pushed |-> 0]

\* main on `[e1,e2,...]`: the entries are pushed, then chunk_size; on `[]`
\* the count 0 alone
PushOperand(entries) ==
    /\ pc = "parse"
    /\ run.pushed < MaxSets
    /\ multiset' = STACK_PUSH(PushEntries(multiset, entries, 1), Len(entries))
    /\ op' = [NoOp EXCEPT !.kind = "operand"]
    /\ run' = [run EXCEPT !.pos = @ + 1, !.pushed = @ + 1]
    /\ UNCHANGED <<root, pc, out, crashed, ref, live, dead>>

\* main pops an operator that has its two operands: ProcessOperation
Process(operator) ==
    /\ pc = "parse"
    /\ run.pos >= 2
    /\ LET result == ProcessOperation(multiset, operator)
       IN  /\ multiset' = result.multiset
           /\ pc' = IF result.exit THEN "exited" ELSE "parse"
    /\ op' = [NoOp EXCEPT !.kind = operator]
    /\ run' = [run EXCEPT !.pos = @ - 1]
    /\ UNCHANGED <<root, out, crashed, ref, live, dead>>

NextEval ==
    \/ \E entries \in Operands : PushOperand(entries)
    \/ \E operator \in Operators : Process(operator)

SpecEval == InitEval /\ [][NextEval]_vars

\* ================================================================ claims
Without(seq, k) == SelectSeq(seq, LAMBDA x : x # k)

\* C1: after every public operation every node is AVL-balanced: the heights
\* of its left and right subtrees (absent = 0) differ by at most 1.
C1_AVLBalance == IsBalanced(root)

\* C2: after every public operation the tree is in binary-search-tree order:
\* at every node the keys on the left are smaller and those on the right
\* are greater.
C2_BSTOrder == IsBST(root)

C2_Witness ==
    /\ pc = "ran" /\ ~crashed
    /\ op.kind = "remove" /\ op.splice = "succ" /\ op.rot >= 1
    /\ NodeCount(root) >= 3

\* C3: after every public operation the stored level of every node is
\* 1 + max(level(left), level(right)), an absent subtree counting 0.
C3_HeightsExact == LevelsExact(root)

\* C4: search(k) finds a node exactly when k was inserted and not removed
\* since, for every key, and the `?` command prints OK exactly then.
C4_SearchAgrees ==
    /\ \A k \in Keys : (search(root, k) # Nil) <=> (k \in ref)
    /\ (pc = "ran" /\ op.kind = "search")
           => /\ op.found <=> (op.key \in ref)
              /\ out = IF op.key \in ref THEN <<"OK">> ELSE <<"FAIL">>

C4_Witness ==
    /\ pc = "ran" /\ op.kind = "search" /\ op.found
    /\ root.key # op.key
    /\ \E k \in Keys : k \notin ref /\ search(root, k) = Nil

\* C5: insert of a key already present prints exactly one FAIL and leaves
\* the tree identical: same shape, same keys, same stored levels.
C5_DuplicateInsertUnchanged ==
    [][(op'.kind = "insert" /\ op'.present)
          => (out' = <<"FAIL">> /\ root' = root)]_vars

\* C6: remove of a key not present prints exactly one FAIL and leaves the
\* tree identical: same shape, same keys, same stored levels.
C6_AbsentRemoveUnchanged ==
    [][(op'.kind = "remove" /\ ~op'.present)
          => (out' = <<"FAIL">> /\ root' = root)]_vars

\* C7: remove of a key present prints exactly one OK and destroys one node;
\* when it returns, the keys in order are those before without the key:
\* none lost, none twice, with or without the successor splice.
C7_RemovePresent ==
    [][(op'.kind = "remove" /\ op'.present)
          => /\ out' = <<"OK">>
             /\ op'.freed = 1
             /\ ~crashed' => Inorder(root') = Without(Inorder(root), op'.key)]_vars

C7_Witness ==
    /\ pc = "ran" /\ ~crashed
    /\ op.kind = "remove" /\ op.present /\ op.splice = "succ"
    /\ NodeCount(root) >= 2

\* C8: insert of a key not present prints exactly one OK and creates exactly
\* one node; when it returns, the key set is the one before plus the key,
\* on one node more.
C8_InsertAbsent ==
    [][(op'.kind = "insert" /\ ~op'.present)
          => /\ out' = <<"OK">>
             /\ op'.alloc = 1
             /\ ~crashed' => /\ KeysOf(root') = KeysOf(root) \cup {op'.key}
                             /\ NodeCount(root') = NodeCount(root) + 1]_vars

C8_Witness ==
    /\ pc = "ran" /\ ~crashed
    /\ op.kind = "insert" /\ ~op.present /\ op.rot >= 1
    /\ NodeCount(root) >= 3

\* C9: distinct keys inserted into an empty tree in any order, then every
\* one of them removed in any order: the tree ends empty.
C9_DrainEmpties == (run.mode = "drain" /\ ref = {}) => root = Nil

C9_Witness ==
    /\ run.mode = "drain" /\ ref = {} /\ root = Nil
    /\ pc = "ran" /\ ~crashed /\ op.kind = "remove"
    /\ run.pos = 2 * MaxKey

Expected == <<"OK", "OK", "FAIL", "OK", "OK", "FAIL", "FAIL">>

\* C11: the commands + a, + b, + a, ? a, - a, ? a, - a on an empty tree
\* print exactly OK, OK, FAIL, OK, OK, FAIL, FAIL: every command of the list
\* runs to its end and prints its one line, in that order.
C11_CommandOutput ==
    run.mode = "commands"
        => /\ ~crashed
           /\ run.lines = SubSeq(Expected, 1, run.pos)

\* the same, for the commands that returned
C11_OutputOfReturned ==
    (run.mode = "commands" /\ ~crashed)
        => run.lines = SubSeq(Expected, 1, run.pos)

\* ceil(1.44 * log2(n + 2)) for n = 1, 2, ...: 1.44 * log2(3) = 2.28,
\* log2(4) -> 2.88, log2(5) -> 3.34, log2(6) -> 3.72, log2(7) -> 4.04,
\* log2(8) -> 4.32, log2(9) -> 4.56, log2(10) -> 4.78, log2(11) -> 4.98,
\* log2(12) -> 5.16
HeightBound == <<3, 3, 4, 4, 5, 5, 5, 5, 5, 6>>

\* C12: a tree holding n >= 1 keys has a root height of at most
\* ceil(1.44 * log2(n + 2)).
C12_HeightBound ==
    root # Nil => Height(root) <= HeightBound[NodeCount(root)]

\* C13 as claimed: the loop stops at the end of the stream or at the first
\* malformed line (a line that is not +, - or ? followed by one key token):
\* no command is run after a malformed line has been read.
C13_StopsAtMalformedLine == run.mode = "input" => ~run.late

\* C13 amended: the loop is left only when the extraction of a command
\* character and a key token fails, which is at the end of the stream; a
\* line that is not a command followed by one key is read token by token
\* like any other, a pair whose character is not +, - or ? running nothing;
\* once the loop is left, no command is run and nothing is printed.
C13_StopsAtEndOfStream ==
    [][/\ (pc # "exit" /\ pc' = "exit") => (run.eof /\ Len(run.pend) < 2)
       /\ (pc \in {"exit", "done"}) => (op' = op /\ out' = out /\ run.lines' = run.lines
                                         /\ ref' = ref /\ pc' \in {"exit", "done"})]_vars

C13_Witness ==
    /\ pc = "done" /\ run.mode = "input"
    /\ run.late
    /\ Len(run.lines) >= 2

\* C14: a single insert makes at most one rotation event (a simple or a
\* double rotation) on its whole way back to the root, and an insert of a
\* key already present makes none.
C14_OneRotationPerInsert ==
    (pc = "ran" /\ op.kind = "insert" /\ ~crashed)
        => /\ op.rot <= 1
           /\ op.present => op.rot = 0

\* C15: on a node whose two child subtrees are AVL-balanced with exact stored
\* levels, balance returns a subtree that is AVL-balanced at every node, has
\* exact stored levels and the same keys in order as before.
C15_RebalanceRestores ==
    [][(pc = "call" /\ op'.kind = "balance")
          => /\ IsBalanced(root')
             /\ LevelsExact(root')
             /\ Inorder(root') = Inorder(root)]_vars

\* the same for the nodes balance is meant for, whose children differ in
\* height by two at most
C15_RebalanceWithinTwo ==
    [][(pc = "call" /\ op'.kind = "balance"
            /\ Height(root.left) - Height(root.right) \in -2..2)
          => /\ IsBalanced(root')
             /\ LevelsExact(root')
             /\ Inorder(root') = Inorder(root)]_vars

\* what balance does keep when it returns: the keys in order
C15_RebalanceKeepsOrder ==
    [][(pc = "call" /\ op'.kind = "balance")
          => Inorder(root') = Inorder(root)]_vars

LevelExactAt(t) == t.level = 1 + Max(StoredLevel(t.left), StoredLevel(t.right))

\* C16: rotate_right on a node with a left child L returns L as the root,
\* the node as L's right child and L's former right subtree as the node's
\* left subtree; the keys in order are unchanged and the stored levels of
\* the node and of L are exact afterwards.  rotate_left is the mirror image.
C16_RotationShape ==
    [][/\ (pc = "call" /\ op'.kind = "rotate_right")
           => /\ root'.key = root.left.key
              /\ root'.left = root.left.left
              /\ root'.right.key = root.key
              /\ root'.right.left = root.left.right
              /\ root'.right.right = root.right
              /\ Inorder(root') = Inorder(root)
              /\ LevelExactAt(root'.right)
              /\ LevelExactAt(root')
       /\ (pc = "call" /\ op'.kind = "rotate_left")
           => /\ root'.key = root.right.key
              /\ root'.right = root.right.right
              /\ root'.left.key = root.key
              /\ root'.left.right = root.right.left
              /\ root'.left.left = root.left
              /\ Inorder(root') = Inorder(root)
              /\ LevelExactAt(root'.left)
              /\ LevelExactAt(root')]_vars

\* what a rotation does keep when it returns: the links and the keys
C16_RotationLinks ==
    [][/\ (pc = "call" /\ op'.kind = "rotate_right")
           => /\ root'.key = root.left.key
              /\ root'.left = root.left.left
              /\ root'.right.key = root.key
              /\ root'.right.left = root.left.right
              /\ root'.right.right = root.right
              /\ Inorder(root') = Inorder(root)
       /\ (pc = "call" /\ op'.kind = "rotate_left")
           => /\ root'.key = root.right.key
              /\ root'.right = root.right.right
              /\ root'.left.key = root.key
              /\ root'.left.right = root.right.left
              /\ root'.left.left = root.left
              /\ Inorder(root') = Inorder(root)]_vars

\* C17: in every call of bfactor made by balance the node is present and
\* the value computed, an unsigned subtraction of the two levels converted
\* to int, is the signed difference level(right) - level(left) and lies
\* in -2..2.  balance calls bfactor on nodes whose children differ in
\* height by two at most.
C17_BfactorIsDifference ==
    (pc = "returned" /\ op.kind = "bfactor"
        /\ Height(root.left) - Height(root.right) \in -2..2)
        => /\ op.val = StoredLevel(root.right) - StoredLevel(root.left)
           /\ op.val \in -2..2

\* the nodes linked below a child slot, each as often as it is linked
RECURSIVE LinkedBag(_)
LinkedBag(t) ==
    IF t = Nil THEN EmptyBag
    ELSE LinkedBag(t.left) (+) SetToBag({t.key}) (+) LinkedBag(t.right)

\* the child slots that hold a node: <<key of the parent, key of the child>>
RECURSIVE Links(_)
Links(t) ==
    IF t = Nil THEN {}
    ELSE {<<t.key, c.key>> : c \in {t.left, t.right} \ {Nil}}
             \cup Links(t.left) \cup Links(t.right)

Range(seq) == {seq[i] : i \in 1..Len(seq)}

Pos(seq, x) == CHOOSE i \in 1..Len(seq) : seq[i] = x

NoRepeat(seq) == \A i, j \in 1..Len(seq) : seq[i] = seq[j] => i = j

\* C18: after every public operation that returned, the live nodes (made
\* by insert and not yet deleted) are exactly the nodes linked from the root,
\* each through one child slot.  A node is made only by the insert of an
\* absent key; it is deleted once, by the remove of its key or by the
\* teardown, while it is live; a deleted node is not linked again, and the
\* successor splice leaks none: after the teardown no node is live.
C18_LiveNodesLinked ==
    [][/\ (op'.kind = "insert") => op'.alloc = (IF op'.present THEN 0 ELSE 1)
       /\ (op'.kind = "remove")
           => /\ op'.freed = (IF op'.present THEN 1 ELSE 0)
              /\ op'.freed = 1 => BagIn(op'.key, live)
       /\ (pc' \in {"read", "ran"} /\ ~crashed') => live' = LinkedBag(root')
       /\ (dead' # dead) => /\ BagIn(dead'[Len(dead')], live)
                            /\ NoRepeat(dead')
       /\ (pc' = "done") => (live' = EmptyBag /\ root' = Nil)]_vars

C18_Witness ==
    /\ pc = "done" /\ run.mode = "session"
    /\ Len(dead) >= 3
    /\ \E k \in Keys : k \notin Range(dead) /\ k \notin ref

C18_SpliceWitness ==
    /\ pc = "ran" /\ ~crashed /\ run.mode = "session"
    /\ op.kind = "remove" /\ op.splice = "succ"
    /\ NodeCount(root) >= 3

\* C19 as claimed: the teardown deletes the nodes in post-order, both
\* children before the node, and no node is deleted while a parent not yet
\* deleted still holds a reference to it.
C19_NoParentLeftBehind ==
    pc = "exit"
        => \A link \in Links(root) :
              /\ link[1] \in Range(dead)
                    => (link[2] \in Range(dead) /\ Pos(dead, link[2]) < Pos(dead, link[1]))
              /\ link[2] \in Range(dead)
                    => (link[1] \in Range(dead) /\ Pos(dead, link[1]) < Pos(dead, link[2]))

\* C19 amended: the teardown deletes the nodes in post-order: a node is
\* deleted after both its children, each node once, and all of them before
\* the root pointer is cleared.  clear_tree does not clear a child pointer:
\* every node but the root is deleted while its parent, not yet deleted,
\* still holds the pointer to it.
C19_PostOrder ==
    pc = "exit"
        => /\ NoRepeat(dead)
           /\ Range(dead) \subseteq KeysOf(root)
           /\ \A link \in Links(root) :
                 /\ link[1] \in Range(dead)
                       => (link[2] \in Range(dead) /\ Pos(dead, link[2]) < Pos(dead, link[1]))
                 /\ (link[2] \in Range(dead) /\ dead[Len(dead)] = link[2])
                       => link[1] \notin Range(dead)

C19_Witness ==
    /\ pc = "exit" /\ run.mode = "session"
    /\ root # Nil /\ root.left # Nil /\ root.right # Nil
    /\ Len(dead) = NodeCount(root)
    /\ Len(dead) >= 4

\* the top of the stack holds two length-prefixed sets: a count r with r
\* entries below it, then a count l with l entries below it
HoldsTwoSets(stack) ==
    LET n == SIZE(stack)
    IN  /\ n >= 2
        /\ stack.base[n] >= 0
        /\ n - 1 - stack.base[n] >= 1
        /\ stack.base[n - 1 - stack.base[n]] >= 0
        /\ n - 2 - stack.base[n] - stack.base[n - 1 - stack.base[n]] >= 0

\* the entries below the two sets on top
Below(stack) ==
    SIZE(stack) - 2 - stack.base[SIZE(stack)]
        - stack.base[SIZE(stack) - 1 - stack.base[SIZE(stack)]]

\* C20: for each of the operators U, ^ and \, ProcessOperation on a stack
\* whose top holds two length-prefixed sets pops those two sets and pushes
\* one length-prefixed result set: the count on top is the number of result
\* entries just pushed, and every entry below the two operands is unchanged.
C20_ProcessFrame ==
    [][(pc = "parse" /\ op'.kind \in Operators /\ HoldsTwoSets(multiset))
          => /\ pc' = "parse"
             /\ SIZE(multiset') >= Below(multiset) + 1
             /\ SubSeq(Entries(multiset'), 1, Below(multiset))
                    = SubSeq(Entries(multiset), 1, Below(multiset))
             /\ multiset'.base[SIZE(multiset')]
                    = SIZE(multiset') - Below(multiset) - 1]_vars

====
